---- MODULE Spec2Model ----
(***************************************************************************)
(* Model of src/tail/tail.rs: uumain -> preprocess_args -> getopts ->      *)
(* config_from_matches -> run -> tail_file / tail_stdin -> tail_stream.    *)
(*                                                                         *)
(* A command-line argument is a sequence of one-character strings, a file  *)
(* content is a sequence of bytes ("a" or "\n"), an Option<T> is a         *)
(* sequence of length 0 (None) or 1 (Some).                                *)
(***************************************************************************)
EXTENDS Integers, Sequences, FiniteSets, TLC

VARIABLES
    pc,            \* position in uumain / run / tail_file / tail_stream
    args,          \* os::args(), args[1] is the program name
    pargs,         \* the arguments preprocess_args keeps
    odd_opts,      \* OddOpts.mode : Option<Mode>
    config,        \* Config {mode, files, print_headers}
    idx,           \* run: index of the path the for loop is at (1-based)
    first_time,    \* run: first_time
    source,        \* "none", "file" or "stdin": what the current reader reads
    content,       \* the bytes of the source being read
    extractor,     \* "none", "seekable" or "window": the code path taken
    pos,           \* read cursor of the current reader (bytes consumed)
    line_offsets,  \* tail_file: line_offsets
    next_offset,   \* tail_file: next_offset
    deque,         \* tail_stream: deque
    out,           \* standard output: the sequence of writes so far
    result,        \* outcome of the last tail_file / tail_stdin call
    status,        \* exit status of the process once pc = "exit"
    used           \* bytes held by the sources opened so far (bounds the run)

vars == <<pc, args, pargs, odd_opts, config, idx, first_time, source, content,
          extractor, pos, line_offsets, next_offset, deque, out, result, status, used>>

----------------------------------------------------------------------------
(* Bounds of the model *)

\* most bytes the sources of one run hold, all sources together
MaxLen == 4
\* most arguments after the program name
MaxArgs == 3

----------------------------------------------------------------------------
(* Values *)

NL == "\n"
Byte == {"a", NL}

None == <<>>
Some(x) == <<x>>

\* enum Unit, enum Anchor
Unit == {"Bytes", "Lines"}
Anchor == {"FromBeginning", "FromEnd"}

\* struct Mode
Mode(u, a, c) == [unit |-> u, anchor |-> a, count |-> c]

RECURSIVE SeqsUpTo(_, _)
SeqsUpTo(S, n) ==
    IF n = 0 THEN {<<>>}
    ELSE LET shorter == SeqsUpTo(S, n - 1)
         IN  shorter \cup {Append(s, x) : s \in {t \in shorter : Len(t) = n - 1}, x \in S}

\* every content a regular file or standard input may hold
Contents == SeqsUpTo(Byte, MaxLen)

\* what File::open and the reads that follow find at a path: no file (open
\* fails), a file whose reads fail (a directory), or a regular file
Missing == [kind |-> "missing", data |-> <<>>]
Unreadable == [kind |-> "unreadable", data |-> <<>>]
Regular(c) == [kind |-> "regular", data |-> c]
FileStates == {Missing, Unreadable} \cup {Regular(c) : c \in Contents}
\* standard input is always open
StdinStates == FileStates \ {Missing}

\* the command-line words the model draws arguments from
Tokens ==
    { <<"-", "n">>, <<"-", "c">>, <<"-", "0">>, <<"-", "1">>, <<"-", "2">>,
      <<"+", "1">>, <<"1">>, <<"f">>, <<"g">> }

ProgName == <<"t", "a", "i", "l">>

ArgLists == {<<ProgName>> \o s : s \in SeqsUpTo(Tokens, MaxArgs)}

----------------------------------------------------------------------------
(* parse_count and from_str *)

Digits == {"0", "1", "2", "3", "4", "5", "6", "7", "8", "9"}

DigitVal(c) ==
    CASE c = "0" -> 0 [] c = "1" -> 1 [] c = "2" -> 2 [] c = "3" -> 3
      [] c = "4" -> 4 [] c = "5" -> 5 [] c = "6" -> 6 [] c = "7" -> 7
      [] c = "8" -> 8 [] c = "9" -> 9

RECURSIVE DecVal(_)
DecVal(s) ==
    IF s = <<>> THEN 0
    ELSE 10 * DecVal(SubSeq(s, 1, Len(s) - 1)) + DigitVal(s[Len(s)])

\* from_str::<uint>: Some(number) for a non-empty string of digits
from_str(s) ==
    IF s # <<>> /\ \A i \in 1..Len(s) : s[i] \in Digits
    THEN Some(DecVal(s)) ELSE None

parse_count(arg) ==
    LET maybe_anchor ==
            IF Len(arg) > 1 /\ arg[1] = "-" THEN Some("FromEnd")
            ELSE IF Len(arg) > 1 /\ arg[1] = "+" THEN Some("FromBeginning")
            ELSE None
    IN  IF maybe_anchor # None
        THEN LET maybe_number == from_str(SubSeq(arg, 2, Len(arg)))
             IN  IF maybe_number # None
                 THEN Some([anchor |-> maybe_anchor[1], count |-> maybe_number[1]])
                 ELSE None
        ELSE None

----------------------------------------------------------------------------
(* preprocess_args *)

DashC == <<"-", "c">>
DashN == <<"-", "n">>

\* one call of the filter closure on argument number i (0-based), st the
\* captured locals and the arguments kept so far
PreprocessStep(st, arg, i) ==
    LET valid_count_position == (i = 1)
        parsed == IF st.just_saw_dash_c_or_n THEN None ELSE parse_count(arg)
        r == parsed = None
    IN  [ mode    |-> IF parsed # None /\ valid_count_position
                      THEN Some(Mode("Lines", parsed[1].anchor, parsed[1].count))
                      ELSE st.mode,
          success |-> st.success /\ ~(parsed # None /\ ~valid_count_position),
          just_saw_dash_c_or_n |-> (arg = DashC \/ arg = DashN),
          kept    |-> IF r THEN Append(st.kept, arg) ELSE st.kept ]

RECURSIVE PreprocessFrom(_, _, _)
PreprocessFrom(st, as, i) ==
    IF i >= Len(as) THEN st
    ELSE PreprocessFrom(PreprocessStep(st, as[i + 1], i), as, i + 1)

\* Ok((args, odd_opts)) or Err(1)
preprocess_args(as) ==
    LET st == PreprocessFrom([mode |-> None, success |-> TRUE,
                              just_saw_dash_c_or_n |-> FALSE, kept |-> <<>>], as, 0)
    IN  IF st.success
        THEN [ok |-> TRUE, args |-> st.kept, odd_opts |-> st.mode]
        ELSE [ok |-> FALSE, args |-> <<>>, odd_opts |-> None]

----------------------------------------------------------------------------
(* getopts::getopts(args.tail(), opts) with the two optopt options -c and  *)
(* -n; fail is Err(ArgumentMissing | UnrecognizedOption | OptionDuplicated) *)

IsOptionArg(arg) == Len(arg) > 1 /\ arg[1] = "-"

RECURSIVE GetoptsFrom(_, _, _)
GetoptsFrom(m, as, i) ==
    IF i > Len(as) \/ ~m.ok THEN m
    ELSE LET cur == as[i]
         IN  IF IsOptionArg(cur)
             THEN IF cur \in {DashC, DashN}
                  THEN IF i = Len(as)
                       THEN [m EXCEPT !.ok = FALSE]
                       ELSE GetoptsFrom(
                                IF cur = DashN
                                THEN [m EXCEPT !.n = Append(@, as[i + 1])]
                                ELSE [m EXCEPT !.c = Append(@, as[i + 1])],
                                as, i + 2)
                  ELSE [m EXCEPT !.ok = FALSE]
             ELSE GetoptsFrom([m EXCEPT !.free = Append(@, cur)], as, i + 1)

getopts(as) ==
    LET m == GetoptsFrom([ok |-> TRUE, n |-> <<>>, c |-> <<>>, free |-> <<>>], as, 1)
    IN  IF m.ok /\ (Len(m.n) > 1 \/ Len(m.c) > 1) THEN [m EXCEPT !.ok = FALSE] ELSE m

\* matches.opt_str(name): the option's first value, if it was given
opt_str(vals) == IF vals = <<>> THEN None ELSE Some(vals[1])

----------------------------------------------------------------------------
(* config_from_matches *)

default_mode == Mode("Lines", "FromEnd", 10)

\* a variant of print_headers: a header whenever there is a file at all
print_headers_any(files) == Len(files) > 0

\* config_from_matches line 191
print_headers(files) == Len(files) > 1

config_from_matches(matches, odd) ==
    LET maybe_n_str == opt_str(matches.n)
        n_mode ==
            IF maybe_n_str # None
            THEN LET parsed == parse_count(maybe_n_str[1])
                 IN  IF parsed # None
                     THEN Mode("Lines", parsed[1].anchor, parsed[1].count)
                     ELSE default_mode
            ELSE default_mode
        mode == IF odd # None THEN odd[1] ELSE n_mode
        files == matches.free
    IN  [mode |-> mode, files |-> files, print_headers |-> print_headers(files)]

----------------------------------------------------------------------------
(* Readers and writers *)

RECURSIVE LineEnd(_, _)
\* index of the last byte of the line that starts after byte p of data
LineEnd(data, p) ==
    IF p + 1 >= Len(data) \/ data[p + 1] = NL THEN p + 1
    ELSE LineEnd(data, p + 1)

\* BufferedReader::read_line at cursor p: the bytes up to and including the
\* next "\n", or up to the end of the data; None at the end of the data
read_line(data, p) ==
    IF p >= Len(data) THEN None
    ELSE Some(SubSeq(data, p + 1, LineEnd(data, p)))

\* println!("") / println!("==> {} <==", path) / print!("{}", line)
BlankWrite == [kind |-> "blank", text |-> <<>>]
HeaderWrite(path) == [kind |-> "header", text |-> path]
LineWrite(line) == [kind |-> "line", text |-> line]
UsageWrite == [kind |-> "usage", text |-> <<>>]

----------------------------------------------------------------------------
(* tail_file and tail_stream: the loop bodies *)

\* a variant of first_line_offset that starts one line too early
first_line_offset_early(offsets, count) ==
    LET num_offsets == Len(offsets)
    IN  IF num_offsets <= count + 1 THEN Some(0)
        ELSE Some(offsets[num_offsets - count])

\* tail_file lines 248-250: None is the failed bounds check of Vec::get
first_line_offset(offsets, count) ==
    LET num_offsets == Len(offsets)
    IN  IF num_offsets < count THEN Some(0)
        ELSE IF num_offsets - count < num_offsets
             THEN Some(offsets[num_offsets - count + 1])
             ELSE None

\* tail_file lines 253-257: the cursor after the seek
seek(data, offset) ==
    IF offset >= 0 THEN offset ELSE Len(data) + offset

\* a variant of push_line that evicts the newest line instead of the oldest
push_line_pop_back(dq, line, count) ==
    LET popped == IF Len(dq) = count
                  THEN (IF dq = <<>> THEN dq ELSE SubSeq(dq, 1, Len(dq) - 1))
                  ELSE dq
    IN  Append(popped, line)

\* tail_stream lines 279-282
push_line(dq, line, count) ==
    LET popped == IF Len(dq) = count
                  THEN (IF dq = <<>> THEN dq ELSE Tail(dq))
                  ELSE dq
    IN  Append(popped, line)

----------------------------------------------------------------------------
(* tail_file and tail_stream as functions of the bytes read: the loops of  *)
(* the two functions run to their end, built from the same loop bodies     *)

RECURSIVE IndexAll(_, _, _, _)
\* tail_file lines 242-246, the whole first pass
IndexAll(data, p, offsets, next) ==
    LET line == read_line(data, p)
    IN  IF line = None THEN offsets
        ELSE IndexAll(data, p + Len(line[1]), Append(offsets, next), next + Len(line[1]))

RECURSIVE ReadAllLines(_, _)
\* the lines a reader yields from cursor p to the end of the data
ReadAllLines(data, p) ==
    LET line == read_line(data, p)
    IN  IF line = None THEN <<>>
        ELSE <<line[1]>> \o ReadAllLines(data, p + Len(line[1]))

\* tail_file lines 237-265 on a readable file: the outcome and the lines printed
tail_file_lines(data, count) ==
    LET off == first_line_offset(IndexAll(data, 0, <<>>, 0), count)
    IN  IF off = None
        THEN [result |-> "panic", lines |-> <<>>]
        ELSE [result |-> "ok", lines |-> ReadAllLines(data, seek(data, off[1]))]

RECURSIVE FillDeque(_, _, _, _)
\* tail_stream lines 277-283, the whole read loop
FillDeque(data, p, dq, count) ==
    LET line == read_line(data, p)
    IN  IF line = None THEN dq
        ELSE FillDeque(data, p + Len(line[1]), push_line(dq, line[1], count), count)

\* tail_stream lines 273-295 on a readable stream: the outcome and the lines printed
tail_stream_lines(data, mode) ==
    IF mode.unit = "Lines"
    THEN [result |-> "ok", lines |-> FillDeque(data, 0, <<>>, mode.count)]
    ELSE [result |-> "ok", lines |-> <<>>]

----------------------------------------------------------------------------
(* Initial state: the process is started with some argument list *)

NoConfig == [mode |-> default_mode, files |-> <<>>, print_headers |-> FALSE]
NoSource == [kind |-> "none", readable |-> FALSE]

Init ==
    /\ args \in ArgLists
    /\ pc = "start"
    /\ pargs = <<>>
    /\ odd_opts = None
    /\ config = NoConfig
    /\ idx = 1
    /\ first_time = TRUE
    /\ source = NoSource
    /\ content = <<>>
    /\ extractor = "none"
    /\ pos = 0
    /\ line_offsets = <<>>
    /\ next_offset = 0
    /\ deque = <<>>
    /\ out = <<>>
    /\ result = "none"
    /\ status = 0
    /\ used = 0

----------------------------------------------------------------------------
(* uumain *)

\* uumain lines 27-30
Preprocess ==
    /\ pc = "start"
    /\ LET r == preprocess_args(args)
       IN  IF r.ok
           THEN /\ pargs' = r.args
                /\ odd_opts' = r.odd_opts
                /\ pc' = "getopts"
                /\ UNCHANGED status
           ELSE /\ pc' = "exit"
                /\ status' = 1
                /\ UNCHANGED <<pargs, odd_opts>>
    /\ UNCHANGED <<args, config, idx, first_time, source, content, extractor, pos,
                   line_offsets, next_offset, deque, out, result, used>>

\* uumain lines 32-56: getopts, then config_from_matches
Getopts ==
    /\ pc = "getopts"
    /\ LET matches == getopts(Tail(pargs))
       IN  IF matches.ok
           THEN /\ config' = config_from_matches(matches, odd_opts)
                /\ pc' = "run"
                /\ UNCHANGED <<out, status>>
           ELSE /\ out' = Append(out, UsageWrite)
                /\ pc' = "exit"
                /\ status' = 1
                /\ UNCHANGED config
    /\ UNCHANGED <<args, pargs, odd_opts, idx, first_time, source, content, extractor,
                   pos, line_offsets, next_offset, deque, result, used>>

----------------------------------------------------------------------------
(* run *)

\* a variant of file_extractor with the test of line 231 joined by "and"
file_extractor_and(mode) ==
    IF mode.unit # "Lines" /\ mode.anchor # "FromEnd" THEN "window" ELSE "seekable"

\* which code path tail_file takes for a mode (line 231)
file_extractor(mode) ==
    IF mode.unit # "Lines" \/ mode.anchor # "FromEnd" THEN "window" ELSE "seekable"

\* run lines 204-209 and tail_file lines 227-241: the separator, the header,
\* File::open and the choice of the code path
RunNextFile ==
    /\ pc = "run"
    /\ idx <= Len(config.files)
    /\ out' = out \o (IF ~first_time THEN <<BlankWrite>> ELSE <<>>)
                  \o (IF config.print_headers
                      THEN <<HeaderWrite(config.files[idx])>> ELSE <<>>)
    /\ \E st \in FileStates :
          /\ used + Len(st.data) <= MaxLen
          /\ used' = used + Len(st.data)
          /\ IF st = Missing
             THEN /\ result' = "err"
                  /\ pc' = "ret"
                  /\ source' = NoSource
                  /\ content' = <<>>
                  /\ extractor' = "none"
             ELSE /\ result' = "none"
                  /\ source' = [kind |-> "file", readable |-> st.kind = "regular"]
                  /\ content' = st.data
                  /\ extractor' = file_extractor(config.mode)
                  /\ pc' = IF file_extractor(config.mode) = "window"
                           THEN "stream" ELSE "index"
    /\ pos' = 0
    /\ line_offsets' = <<>>
    /\ next_offset' = 0
    /\ deque' = <<>>
    /\ UNCHANGED <<args, pargs, odd_opts, config, idx, first_time, status>>

\* run lines 209-213: the match on tail_file's result
RunAfterFile ==
    /\ pc = "ret"
    /\ idx <= Len(config.files)
    /\ IF result = "ok"
       THEN /\ first_time' = FALSE
            /\ idx' = idx + 1
            /\ pc' = "run"
            /\ UNCHANGED status
       ELSE /\ pc' = "exit"
            /\ status' = 1
            /\ UNCHANGED <<first_time, idx>>
    /\ UNCHANGED <<args, pargs, odd_opts, config, source, content, extractor, pos,
                   line_offsets, next_offset, deque, out, result, used>>

\* run lines 216-218 and tail_stdin lines 268-270
RunStdin ==
    /\ pc = "run"
    /\ idx > Len(config.files)
    /\ Len(config.files) = 0
    /\ \E st \in StdinStates :
          /\ used + Len(st.data) <= MaxLen
          /\ used' = used + Len(st.data)
          /\ source' = [kind |-> "stdin", readable |-> st.kind = "regular"]
          /\ content' = st.data
    /\ extractor' = "window"
    /\ result' = "none"
    /\ pos' = 0
    /\ deque' = <<>>
    /\ pc' = "stream"
    /\ UNCHANGED <<args, pargs, odd_opts, config, idx, first_time, line_offsets,
                   next_offset, out, status>>

\* run lines 218-224 and uumain lines 58-61: the match on tail_stdin's result
RunAfterStdin ==
    /\ pc = "ret"
    /\ idx > Len(config.files)
    /\ pc' = "exit"
    /\ status' = IF result = "ok" THEN 0 ELSE 1
    /\ UNCHANGED <<args, pargs, odd_opts, config, idx, first_time, source, content,
                   extractor, pos, line_offsets, next_offset, deque, out, result, used>>

\* run line 224 and uumain lines 58-59, after the last file
RunReturn ==
    /\ pc = "run"
    /\ idx > Len(config.files)
    /\ Len(config.files) # 0
    /\ pc' = "exit"
    /\ status' = 0
    /\ UNCHANGED <<args, pargs, odd_opts, config, idx, first_time, source, content,
                   extractor, pos, line_offsets, next_offset, deque, out, result, used>>

----------------------------------------------------------------------------
(* tail_file, the seekable path *)

\* tail_file lines 242-246: one iteration of the first pass
IndexLine ==
    /\ pc = "index"
    /\ IF ~source.readable
       THEN /\ result' = "err"
            /\ pc' = "ret"
            /\ UNCHANGED <<pos, line_offsets, next_offset>>
       ELSE LET line == read_line(content, pos)
            IN  IF line = None
                THEN /\ pc' = "seek"
                     /\ UNCHANGED <<pos, line_offsets, next_offset, result>>
                ELSE /\ line_offsets' = Append(line_offsets, next_offset)
                     /\ next_offset' = next_offset + Len(line[1])
                     /\ pos' = pos + Len(line[1])
                     /\ UNCHANGED <<pc, result>>
    /\ UNCHANGED <<args, pargs, odd_opts, config, idx, first_time, source, content,
                   extractor, deque, out, status, used>>

\* tail_file lines 248-258: the offset of the first line to print, and the
\* seek to it; the failed bounds check of line_offsets.get ends the task
SeekFirstLine ==
    /\ pc = "seek"
    /\ LET off == first_line_offset(line_offsets, config.mode.count)
       IN  IF off = None
           THEN /\ result' = "panic"
                /\ pc' = "exit"
                /\ status' = 101
                /\ UNCHANGED pos
           ELSE /\ pos' = seek(content, off[1])
                /\ pc' = "emit"
                /\ UNCHANGED <<result, status>>
    /\ UNCHANGED <<args, pargs, odd_opts, config, idx, first_time, source, content,
                   extractor, line_offsets, next_offset, deque, out, used>>

\* tail_file lines 260-265: one iteration of the second pass
EmitLine ==
    /\ pc = "emit"
    /\ LET line == read_line(content, pos)
       IN  IF line = None
           THEN /\ result' = "ok"
                /\ pc' = "ret"
                /\ UNCHANGED <<pos, out>>
           ELSE /\ out' = Append(out, LineWrite(line[1]))
                /\ pos' = pos + Len(line[1])
                /\ UNCHANGED <<pc, result>>
    /\ UNCHANGED <<args, pargs, odd_opts, config, idx, first_time, source, content,
                   extractor, line_offsets, next_offset, deque, status, used>>

----------------------------------------------------------------------------
(* tail_stream *)

\* tail_stream lines 274-283 and 291-294: one iteration of the read loop
StreamLine ==
    /\ pc = "stream"
    /\ IF config.mode.unit # "Lines"
       THEN /\ result' = "ok"
            /\ pc' = "ret"
            /\ UNCHANGED <<pos, deque>>
       ELSE IF ~source.readable
       THEN /\ result' = "err"
            /\ pc' = "ret"
            /\ UNCHANGED <<pos, deque>>
       ELSE LET line == read_line(content, pos)
            IN  IF line = None
                THEN /\ pc' = "drain"
                     /\ UNCHANGED <<pos, deque, result>>
                ELSE /\ deque' = push_line(deque, line[1], config.mode.count)
                     /\ pos' = pos + Len(line[1])
                     /\ UNCHANGED <<pc, result>>
    /\ UNCHANGED <<args, pargs, odd_opts, config, idx, first_time, source, content,
                   extractor, line_offsets, next_offset, out, status, used>>

\* tail_stream lines 285-294: one iteration of the print loop
DrainLine ==
    /\ pc = "drain"
    /\ IF deque = <<>>
       THEN /\ result' = "ok"
            /\ pc' = "ret"
            /\ UNCHANGED <<deque, out>>
       ELSE /\ out' = Append(out, LineWrite(Head(deque)))
            /\ deque' = Tail(deque)
            /\ UNCHANGED <<pc, result>>
    /\ UNCHANGED <<args, pargs, odd_opts, config, idx, first_time, source, content,
                   extractor, pos, line_offsets, next_offset, status, used>>

----------------------------------------------------------------------------

Next ==
    \/ Preprocess
    \/ Getopts
    \/ RunNextFile
    \/ RunAfterFile
    \/ RunStdin
    \/ RunAfterStdin
    \/ RunReturn
    \/ IndexLine
    \/ SeekFirstLine
    \/ EmitLine
    \/ StreamLine
    \/ DrainLine

Spec == Init /\ [][Next]_vars

----------------------------------------------------------------------------
(* What the properties below speak about *)

\* the lines of a content, stated without reading it: a line ends at each
\* "\n" and at the last byte
Cuts(data) == {i \in 1..Len(data) : data[i] = NL \/ i = Len(data)}
NumLines(data) == Cardinality(Cuts(data))
\* the end of line number j (0 for j = 0)
CutAt(data, j) ==
    IF j = 0 THEN 0
    ELSE CHOOSE c \in Cuts(data) : Cardinality({d \in Cuts(data) : d <= c}) = j
LineAt(data, j) == SubSeq(data, CutAt(data, j - 1) + 1, CutAt(data, j))
Min(a, b) == IF a < b THEN a ELSE b
\* the last min(n, L) lines of a content of L lines, in order
LastLines(data, n) ==
    LET L == NumLines(data)
        k == Min(n, L)
    IN  [i \in 1..k |-> LineAt(data, L - k + i)]

RECURSIVE Concat(_)
Concat(ls) == IF ls = <<>> THEN <<>> ELSE Head(ls) \o Concat(Tail(ls))

\* the position of the last separator or header written, 0 if there is none
RECURSIVE LastMarker(_)
LastMarker(n) ==
    IF n = 0 THEN 0
    ELSE IF out[n].kind # "line" THEN n ELSE LastMarker(n - 1)

\* the lines printed for the source being extracted (or extracted last)
CurLines ==
    LET m == LastMarker(Len(out))
    IN  [i \in 1..(Len(out) - m) |-> out[m + i].text]

IsMarker(w) == w.kind \in {"blank", "header"}
Markers == SelectSeq(out, IsMarker)

\* how many of the paths run has begun to extract
Started ==
    IF pc = "run" THEN idx - 1
    ELSE IF idx <= Len(config.files) THEN idx ELSE Len(config.files)

\* the separators and headers due for the first k paths
RECURSIVE ExpectedMarkers(_)
ExpectedMarkers(k) ==
    IF k = 0 THEN <<>>
    ELSE ExpectedMarkers(k - 1)
           \o (IF k > 1 THEN <<BlankWrite>> ELSE <<>>)
           \o (IF Len(config.files) > 1
               THEN <<HeaderWrite(config.files[k])>> ELSE <<>>)

\* the step-by-step extraction of a readable source ends as the whole
\* function does
StepsAgreeWithFunctions ==
    (source.readable /\ (pc = "ret" \/ result = "panic")) =>
        /\ extractor = "seekable" =>
              [result |-> result, lines |-> CurLines]
                  = tail_file_lines(content, config.mode.count)
        /\ extractor = "window" =>
              [result |-> result, lines |-> CurLines]
                  = tail_stream_lines(content, config.mode)

----------------------------------------------------------------------------
(* Properties *)

\* C1: the seekable path of tail_file (unit Lines, anchor FromEnd), on a
\* readable file of L lines with count N >= 1, never fails the bounds check
\* and prints exactly the last min(N, L) lines, in order and with their own
\* terminators; with N >= L the bytes printed are the whole file.
C1_SeekableLastLines ==
    (extractor = "seekable" /\ source.readable /\ config.mode.count >= 1) =>
        /\ result # "panic"
        /\ pc = "ret" =>
              /\ result = "ok"
              /\ CurLines = LastLines(content, config.mode.count)
              /\ config.mode.count >= NumLines(content) => Concat(CurLines) = content

\* C1 witness: a seekable extraction with 1 <= N < L has returned, on a file
\* whose last line has no terminator
C1_Witness ==
    /\ pc = "ret" /\ extractor = "seekable" /\ result = "ok"
    /\ config.mode.count >= 1
    /\ NumLines(content) > config.mode.count
    /\ content[Len(content)] # NL
    /\ CurLines = <<<<"a">>>>

\* C2: tail_stream (unit Lines), on a readable source of L lines with count
\* N >= 1, prints once the source is exhausted exactly the last min(N, L)
\* lines, each once and in source order.
C2_WindowLastLines ==
    (extractor = "window" /\ source.readable /\ config.mode.unit = "Lines"
       /\ config.mode.count >= 1 /\ pc = "ret") =>
        /\ result = "ok"
        /\ CurLines = LastLines(content, config.mode.count)

\* C2 witness: a window extraction with N = 2 has returned after evicting
\* from a source of more than 2 lines that are not all alike
C2_Witness ==
    /\ pc = "ret" /\ extractor = "window" /\ result = "ok"
    /\ config.mode.count = 2
    /\ NumLines(content) > 2
    /\ Len(CurLines) = 2 /\ CurLines[1] # CurLines[2]

\* C3: with count 0 both extractors complete without failure and print
\* nothing, whatever the (readable) source holds.
C3_ZeroCountPrintsNothing ==
    (extractor # "none" /\ source.readable /\ config.mode.count = 0) =>
        /\ result # "panic"
        /\ pc = "ret" => (result = "ok" /\ CurLines = <<>>)

\* C4: while tail_stream reads, the window never holds more than count lines.
C4_WindowWithinCapacity ==
    extractor = "window" => Len(deque) <= config.mode.count

\* C5: on the same content and count the seekable path of tail_file and
\* tail_stream end in the same outcome with the same lines printed.
C5_ExtractorsAgree ==
    (source.readable /\ config.mode.unit = "Lines" /\ (pc = "ret" \/ result = "panic")) =>
        /\ extractor = "seekable" =>
              [result |-> result, lines |-> CurLines]
                  = tail_stream_lines(content, config.mode)
        /\ extractor = "window" =>
              [result |-> result, lines |-> CurLines]
                  = tail_file_lines(content, config.mode.count)

\* C6: when a source fails to open or to read, run still attempts every
\* later source before the process exits.
C6_LaterSourcesAttempted ==
    (pc = "exit" /\ result = "err" /\ Len(config.files) > 0) =>
        /\ Started = Len(config.files)
        /\ status # 0

\* C7: a from-start anchor or a byte unit on standard input never returns
\* success.
C7_UnsupportedIsAnError ==
    (source.kind = "stdin" /\ pc = "ret"
       /\ (config.mode.unit = "Bytes" \/ config.mode.anchor = "FromBeginning")) =>
        result # "ok"

\* C8: "-n K" resolves to unit Lines with count K and "-c K" to unit Bytes
\* with count K.
C8_ExplicitOptionSetsMode ==
    (pc = "run" /\ Len(args) >= 3 /\ from_str(args[3]) # None) =>
        /\ args[2] = DashN =>
              (config.mode.unit = "Lines" /\ config.mode.count = from_str(args[3])[1])
        /\ args[2] = DashC =>
              (config.mode.unit = "Bytes" /\ config.mode.count = from_str(args[3])[1])

\* C9: the paths are extracted one at a time in the order given; with more
\* than one path each extraction is preceded by the header of its path, and
\* a blank line stands between consecutive sources, never first; with one
\* path (or none) neither a header nor a blank line is printed.
C9_HeadersAndSeparators ==
    /\ Started \in 0..Len(config.files)
    /\ Markers = ExpectedMarkers(Started)
    /\ \A j \in 1..Len(out) :
          /\ out[j].kind = "blank" =>
                (j > 1 /\ j < Len(out) /\ out[j + 1].kind = "header")
          /\ (out[j].kind = "line" /\ Len(config.files) > 1) => j > 1
    /\ (Len(config.files) > 1 /\ out # <<>>) => out[1].kind = "header"

\* C9 witness: a run over two paths has exited with success, lines printed
\* for both
C9_Witness ==
    /\ pc = "exit" /\ status = 0
    /\ Len(config.files) = 2
    /\ config.files[1] # config.files[2]
    /\ Len(out) = 5
    /\ out[2].kind = "line" /\ out[5].kind = "line"

\* C10: the seekable path is taken exactly when the unit is Lines, the
\* anchor FromEnd and the source a file; every other extraction goes
\* through the window of tail_stream, which for unit Lines prints what the
\* window of the same count prints with the anchor FromEnd.
C10_Dispatch ==
    source.kind # "none" =>
        /\ extractor = IF /\ config.mode.unit = "Lines"
                          /\ config.mode.anchor = "FromEnd"
                          /\ source.kind = "file"
                       THEN "seekable" ELSE "window"
        /\ (extractor = "window" /\ config.mode.unit = "Lines"
              /\ source.readable /\ pc = "ret") =>
              CurLines = tail_stream_lines(
                             content, [config.mode EXCEPT !.anchor = "FromEnd"]).lines

\* C10 witness: a file read with a from-start anchor is in the window path
C10_Witness ==
    /\ source.kind = "file" /\ config.mode.anchor = "FromBeginning"
    /\ extractor = "window" /\ pc = "drain" /\ deque # <<>>

====
